---- MODULE Spec2Model ----
(***************************************************************************)
(* Model of the spreadsheet-to-JSON converter.                             *)
(*                                                                         *)
(* Two programs live in the repository:                                    *)
(*   - src/main.go: the entry point and the batching converter that        *)
(*     writes quotes.json and quotesMetadata.json;                         *)
(*   - src/utils/readFromExcel.go: the converter without batches that      *)
(*     writes the single combined file quotes_output.json.                 *)
(* Spec is the first program, SpecUtils the second, SpecBoth either.       *)
(*                                                                         *)
(* Strings whose characters matter (the cells of a row) are sequences of   *)
(* one-character strings.  The spreadsheet library and the filesystem are  *)
(* collaborators: what they return is chosen nondeterministically.         *)
(***************************************************************************)
EXTENDS Integers, Sequences, FiniteSets, TLC

VARIABLES
    impl,               \* which program runs: "main" or "utils"
    pc,                 \* position of the single thread of control
    path,               \* what fileName designates: "ok", "missing", "badext"
    handle,             \* the workbook handle: "none", "open", "closed"
    sheets,             \* file.GetSheetList()
    rows,               \* file.GetRows(sheets[0])
    i,                  \* zero-based index of the next row of the range loop
    batch,              \* var batch []Quote
    accumulatedQuotes,  \* var accumulatedQuotes []Quote (var quotes in utils)
    metadata,           \* the Metadata value, NoMetadata before it is built
    err,                \* the error ReadQuotesFromExcel is returning
    fs,                 \* the files: name -> content
    fs0,                \* the files as they were before the call
    writeLog,           \* the os.WriteFile calls made, in order
    skipLog,            \* the rows reported by log.Printf as skipped
    closeLog            \* the result of file.Close(), "none" before the call

vars == <<impl, pc, path, handle, sheets, rows, i, batch, accumulatedQuotes,
          metadata, err, fs, fs0, writeLog, skipLog, closeLog>>

----------------------------------------------------------------------------
(* Bounds of the model *)

\* longest row set whose rows are drawn freely from RowChoices
MaxRows == 4
\* most sheets a workbook reports
MaxSheets == 2
\* row sets around one and two full batches hold up to this many rows more
Slack == 1
\* distinct readings of the wall clock
MaxClock == 2
\* longest tags cell drawn freely from Chars
MaxCellLen == 3

(* Program constants *)

\* batchSize := 100
batchSize == 100

----------------------------------------------------------------------------
(* Strings *)

\* strings.ReplaceAll(s, " ", ""): s without its space characters
RECURSIVE ReplaceAllSpaces(_)
ReplaceAllSpaces(s) ==
    IF s = <<>> THEN <<>>
    ELSE IF Head(s) = " " THEN ReplaceAllSpaces(Tail(s))
         ELSE <<Head(s)>> \o ReplaceAllSpaces(Tail(s))

\* strings.Index(s, ","): zero-based index of the first comma, -1 if none
RECURSIVE IndexComma(_)
IndexComma(s) ==
    IF s = <<>> THEN -1
    ELSE IF Head(s) = "," THEN 0
         ELSE LET m == IndexComma(Tail(s)) IN IF m < 0 THEN -1 ELSE m + 1

\* strings.Split(s, ","): cut at every comma; the piece after the last comma
\* (the whole of s when it has none) is always the last element
RECURSIVE Split(_)
Split(s) ==
    LET m == IndexComma(s) IN
    IF m < 0 THEN <<s>>
    ELSE <<SubSeq(s, 1, m)>> \o Split(SubSeq(s, m + 2, Len(s)))

----------------------------------------------------------------------------
(* Inputs: what the spreadsheet library hands over *)

Chars == {"a", ",", " "}

\* every string over Chars of length at most n
RECURSIVE StringsUpTo(_)
StringsUpTo(n) ==
    IF n = 0 THEN {<<>>}
    ELSE LET shorter == StringsUpTo(n - 1) IN
         shorter \cup {Append(s, c) : s \in {t \in shorter : Len(t) = n - 1}, c \in Chars}

\* rows of every shape: no cell, one cell, two cells, three cells
RowChoices ==
    { <<>>,
      << <<"a">> >>,
      << <<>>, <<"q">> >>,
      << <<"a", ",", " ", "b">>, <<"r">>, <<"x">> >> }

RECURSIVE SeqsUpTo(_, _)
SeqsUpTo(S, n) ==
    IF n = 0 THEN {<<>>}
    ELSE LET shorter == SeqsUpTo(S, n - 1) IN
         shorter \cup {Append(s, x) : s \in {t \in shorter : Len(t) = n - 1}, x \in S}

\* short row sets, every row drawn freely
FreeRowSets == SeqsUpTo(RowChoices, MaxRows)

\* a header and one data row whose tags cell is any string over Chars
TagRowSets ==
    { << << <<"T">>, <<"Q">> >>, <<cell, <<"q">>>> >> : cell \in StringsUpTo(MaxCellLen) }

\* n rows; with k > 0 every k-th row has a single cell
PatternRows(n, k) ==
    [j \in 1..n |->
        IF k > 0 /\ (j - 1) % k = 0 THEN << <<"a">> >>
        ELSE << <<"a", ",", "b">>, <<"q">> >>]

\* row sets that fill one and two batches exactly, and a little more or less
LongRowSets ==
    { PatternRows(m * batchSize + d, 0) : m \in {1, 2}, d \in 0..(1 + Slack) }
    \cup { PatternRows(2 * batchSize + d, 3) : d \in 0..Slack }

RowSets == FreeRowSets \cup TagRowSets \cup LongRowSets

SheetNames == <<"Sheet1", "Sheet2", "Sheet3", "Sheet4">>

Clock == 1..MaxClock

----------------------------------------------------------------------------
(* Records and documents *)

NoMetadata == [kind |-> "none"]

\* mutant: the spaces are not removed before the split
ProcessTagsKeepSpaces(cell) == Split(cell)

\* tags of a row: spaces removed, then split by commas
ProcessTags(cell) == Split(ReplaceAllSpaces(cell))

\* mutant: the header row is not skipped
RetainRowWithHeader(idx, row) == Len(row) >= 2

\* the loop's two continue conditions, negated
RetainRow(idx, row) == idx # 0 /\ Len(row) >= 2

\* mutant: the id is the one-based position of the row
MakeQuoteOneBased(idx, row) ==
    [ID |-> idx + 1, Text |-> row[2], Author |-> "", Year |-> 0, Context |-> "",
     Tags |-> ProcessTags(row[1]), Language |-> "en-US"]

\* quote := Quote{ID: int64(i), Text: row[1], Tags: tags, Language: "en-US"}
\* (row[1] of the code is row[2] here: sequences start at 1)
MakeQuote(idx, row) ==
    [ID |-> idx, Text |-> row[2], Author |-> "", Year |-> 0, Context |-> "",
     Tags |-> ProcessTags(row[1]), Language |-> "en-US"]

\* batch = append(batch, quote), then the full batch moves to the accumulated list
AddToBatch(acc, b, quote) ==
    LET nb == Append(b, quote) IN
    IF Len(nb) >= batchSize THEN [acc |-> acc \o nb, batch |-> <<>>]
    ELSE [acc |-> acc, batch |-> nb]

\* mutant: the last incomplete batch is forgotten
FlushRemainingDropped(acc, b) == acc

\* the last incomplete batch
FlushRemaining(acc, b) == IF Len(b) > 0 THEN acc \o b ELSE acc

\* mutant: the count takes the header row in
NewMetadataCountsHeader(acc, now) ==
    [kind |-> "metadata", Version |-> "1.0", LastUpdated |-> now,
     TotalQuotes |-> Len(acc) + 1, URL |-> "path/to/file",
     Schema |-> [Format |-> "JSON", Encoding |-> "UTF-8", FileType |-> "text"]]

\* metadata := Metadata{...}
NewMetadata(acc, now) ==
    [kind |-> "metadata", Version |-> "1.0", LastUpdated |-> now,
     TotalQuotes |-> Len(acc), URL |-> "path/to/file",
     Schema |-> [Format |-> "JSON", Encoding |-> "UTF-8", FileType |-> "text"]]

\* encoding/json of one Quote: the omitempty fields are left out when zero
MarshalQuote(q) ==
    [id |-> q.ID, text |-> q.Text, tags |-> q.Tags, lang |-> q.Language]
    @@ (IF q.Author # "" THEN [author |-> q.Author] ELSE <<>>)
    @@ (IF q.Year # 0 THEN [year |-> q.Year] ELSE <<>>)
    @@ (IF q.Context # "" THEN [context |-> q.Context] ELSE <<>>)

\* encoding/json of a []Quote: a slice nothing was appended to is nil and is
\* written as null, any other as an array
MarshalQuotes(qs) ==
    IF Len(qs) = 0 THEN [json |-> "null"]
    ELSE [json |-> "array", items |-> [k \in 1..Len(qs) |-> MarshalQuote(qs[k])]]

MarshalMetadata(m) ==
    [version |-> m.Version, lastUpdated |-> m.LastUpdated,
     totalQuotes |-> m.TotalQuotes, url |-> m.URL,
     schema |-> [format |-> m.Schema.Format, encoding |-> m.Schema.Encoding,
                 filetype |-> m.Schema.FileType]]

\* the document WriteJSONToFile("quotes.json", QuotesData{Quotes: ...}) writes
QuotesDocument(qs) == [kind |-> "json", indent |-> 2, quotes |-> MarshalQuotes(qs)]

\* the document os.WriteFile("quotesMetadata.json", ...) writes
MetadataDocument(m) == [kind |-> "json", indent |-> 1, doc |-> MarshalMetadata(m)]

----------------------------------------------------------------------------
(* Files *)

QuotesFile == "quotes.json"
MetadataFile == "quotesMetadata.json"
OutputFile == "quotes_output.json"
Files == {QuotesFile, MetadataFile, OutputFile}

Absent == [kind |-> "absent"]
\* what an earlier run or another program left behind
Stale == [kind |-> "stale"]
\* what os.WriteFile leaves when it fails after truncating the file
Truncated == [kind |-> "truncated"]

\* os.WriteFile(name, data, 0644) that succeeds
WriteOk(files, name, content) == [files EXCEPT ![name] = content]

\* os.WriteFile that fails: at opening (the file is as it was) or at
\* writing (the file was truncated and holds part of the data or nothing)
WriteFailOutcomes(files, name) == {files, [files EXCEPT ![name] = Truncated]}

----------------------------------------------------------------------------
(* Errors *)

Nil == "nil"
ErrOpen == "failed to open Excel file"
ErrNoSheets == "no sheets found in the Excel file"
ErrRows == "unable to load cells"
ErrWriteJSON == "error writing JSON to file"
ErrWriteMetadata == "error writing metadata.json"

----------------------------------------------------------------------------
(* Initial states *)

InitCommon ==
    /\ pc = "main"
    /\ path \in {"ok", "missing", "badext"}
    /\ handle = "none"
    /\ sheets = <<>>
    /\ rows = <<>>
    /\ i = 0
    /\ batch = <<>>
    /\ accumulatedQuotes = <<>>
    /\ metadata = NoMetadata
    /\ err = Nil
    /\ \E old \in {{}, {QuotesFile}, Files} :
          fs0 = [f \in Files |-> IF f \in old THEN Stale ELSE Absent]
    /\ fs = fs0
    /\ writeLog = <<>>
    /\ skipLog = <<>>
    /\ closeLog = "none"

Init == impl = "main" /\ InitCommon

InitUtils == impl = "utils" /\ InitCommon

InitBoth == impl \in {"main", "utils"} /\ InitCommon

----------------------------------------------------------------------------
(* The entry point, func main *)

\* main calls utils.ReadQuotesFromExcel("quotes.xlsx")
Main ==
    /\ pc = "main"
    /\ pc' = "OpenExcelFile"
    /\ UNCHANGED <<impl, path, handle, sheets, rows, i, batch, accumulatedQuotes,
                   metadata, err, fs, fs0, writeLog, skipLog, closeLog>>

\* ReadQuotesFromExcel has returned: main panics on an error, ends otherwise
MainReturn ==
    /\ pc = "return"
    /\ pc' = IF err # Nil THEN "panic" ELSE "exit"
    /\ UNCHANGED <<impl, path, handle, sheets, rows, i, batch, accumulatedQuotes,
                   metadata, err, fs, fs0, writeLog, skipLog, closeLog>>

----------------------------------------------------------------------------
(* src/main.go: ReadQuotesFromExcel and ReadExcelFile *)

\* OpenExcelFile fails: the error is logged and returned, nothing is deferred
OpenExcelFileFail ==
    /\ pc = "OpenExcelFile" /\ impl = "main"
    /\ path # "ok"
    /\ err' = ErrOpen
    /\ pc' = "return"
    /\ UNCHANGED <<impl, path, handle, sheets, rows, i, batch, accumulatedQuotes,
                   metadata, fs, fs0, writeLog, skipLog, closeLog>>

\* OpenExcelFile succeeds: the handle is open and its Close is deferred
OpenExcelFileOk ==
    /\ pc = "OpenExcelFile"
    /\ path = "ok"
    /\ handle' = "open"
    /\ \E n \in 0..MaxSheets : sheets' = SubSeq(SheetNames, 1, n)
    /\ pc' = "GetSheetList"
    /\ UNCHANGED <<impl, path, rows, i, batch, accumulatedQuotes,
                   metadata, err, fs, fs0, writeLog, skipLog, closeLog>>

\* mutant: the error of an empty sheet list is set but not returned
GetSheetListNoReturn ==
    /\ pc = "GetSheetList"
    /\ err' = (IF Len(sheets) = 0 THEN ErrNoSheets ELSE err)
    /\ pc' = "GetRows"
    /\ UNCHANGED <<impl, path, handle, sheets, rows, i, batch, accumulatedQuotes,
                   metadata, fs, fs0, writeLog, skipLog, closeLog>>

\* sheets := file.GetSheetList(); no sheet is an error
GetSheetList ==
    /\ pc = "GetSheetList"
    /\ IF Len(sheets) = 0
       THEN err' = ErrNoSheets /\ pc' = "Close"
       ELSE err' = err /\ pc' = "GetRows"
    /\ UNCHANGED <<impl, path, handle, sheets, rows, i, batch, accumulatedQuotes,
                   metadata, fs, fs0, writeLog, skipLog, closeLog>>

\* mutant: Close is called at the end of the function instead of deferred,
\* so the early return leaves the handle open
GetRowsFailNoDefer ==
    /\ pc = "GetRows"
    /\ err' = ErrRows
    /\ pc' = "return"
    /\ UNCHANGED <<impl, path, handle, sheets, rows, i, batch, accumulatedQuotes,
                   metadata, fs, fs0, writeLog, skipLog, closeLog>>

\* rows, err := file.GetRows(sheets[0]) reports an error
GetRowsFail ==
    /\ pc = "GetRows"
    /\ err' = ErrRows
    /\ pc' = "Close"
    /\ UNCHANGED <<impl, path, handle, sheets, rows, i, batch, accumulatedQuotes,
                   metadata, fs, fs0, writeLog, skipLog, closeLog>>

\* rows, err := file.GetRows(sheets[0]) hands over the rows
GetRowsOk ==
    /\ pc = "GetRows"
    /\ rows' \in RowSets
    /\ i' = 0
    /\ pc' = "Loop"
    /\ UNCHANGED <<impl, path, handle, sheets, batch, accumulatedQuotes,
                   metadata, err, fs, fs0, writeLog, skipLog, closeLog>>

\* one iteration of for i, row := range rows
LoopStep ==
    /\ pc = "Loop" /\ impl = "main"
    /\ i < Len(rows)
    /\ LET row == rows[i + 1] IN
       IF RetainRow(i, row)
       THEN LET r == AddToBatch(accumulatedQuotes, batch, MakeQuote(i, row)) IN
            /\ accumulatedQuotes' = r.acc
            /\ batch' = r.batch
            /\ skipLog' = skipLog
       ELSE /\ UNCHANGED <<accumulatedQuotes, batch>>
            /\ skipLog' = IF i = 0 THEN skipLog ELSE Append(skipLog, i)
    /\ i' = i + 1
    /\ UNCHANGED <<impl, pc, path, handle, sheets, rows,
                   metadata, err, fs, fs0, writeLog, closeLog>>

\* after the loop: the last batch is added and the metadata is built
AfterLoop ==
    /\ pc = "Loop" /\ impl = "main"
    /\ i = Len(rows)
    /\ accumulatedQuotes' = FlushRemaining(accumulatedQuotes, batch)
    /\ \E now \in Clock : metadata' = NewMetadata(accumulatedQuotes', now)
    /\ pc' = "WriteQuotes"
    /\ UNCHANGED <<impl, path, handle, sheets, rows, i, batch,
                   err, fs, fs0, writeLog, skipLog, closeLog>>

\* WriteJSONToFile("quotes.json", quotesData) succeeds
WriteQuotesOk ==
    /\ pc = "WriteQuotes"
    /\ fs' = WriteOk(fs, QuotesFile, QuotesDocument(accumulatedQuotes))
    /\ writeLog' = Append(writeLog, [file |-> QuotesFile, ok |-> TRUE])
    /\ pc' = "WriteMetadata"
    /\ UNCHANGED <<impl, path, handle, sheets, rows, i, batch, accumulatedQuotes,
                   metadata, err, fs0, skipLog, closeLog>>

\* mutant: the failed write is logged and the function goes on
WriteQuotesFailNoReturn ==
    /\ pc = "WriteQuotes"
    /\ fs' \in WriteFailOutcomes(fs, QuotesFile)
    /\ writeLog' = Append(writeLog, [file |-> QuotesFile, ok |-> FALSE])
    /\ err' = ErrWriteJSON
    /\ pc' = "WriteMetadata"
    /\ UNCHANGED <<impl, path, handle, sheets, rows, i, batch, accumulatedQuotes,
                   metadata, fs0, skipLog, closeLog>>

\* WriteJSONToFile("quotes.json", quotesData) fails: ReadExcelFile returns
WriteQuotesFail ==
    /\ pc = "WriteQuotes"
    /\ fs' \in WriteFailOutcomes(fs, QuotesFile)
    /\ writeLog' = Append(writeLog, [file |-> QuotesFile, ok |-> FALSE])
    /\ err' = ErrWriteJSON
    /\ pc' = "Close"
    /\ UNCHANGED <<impl, path, handle, sheets, rows, i, batch, accumulatedQuotes,
                   metadata, fs0, skipLog, closeLog>>

\* os.WriteFile("quotesMetadata.json", jsonMetadata, 0644) succeeds
WriteMetadataOk ==
    /\ pc = "WriteMetadata"
    /\ fs' = WriteOk(fs, MetadataFile, MetadataDocument(metadata))
    /\ writeLog' = Append(writeLog, [file |-> MetadataFile, ok |-> TRUE])
    /\ err' = Nil
    /\ pc' = "Close"
    /\ UNCHANGED <<impl, path, handle, sheets, rows, i, batch, accumulatedQuotes,
                   metadata, fs0, skipLog, closeLog>>

\* os.WriteFile("quotesMetadata.json", jsonMetadata, 0644) fails
WriteMetadataFail ==
    /\ pc = "WriteMetadata"
    /\ fs' \in WriteFailOutcomes(fs, MetadataFile)
    /\ writeLog' = Append(writeLog, [file |-> MetadataFile, ok |-> FALSE])
    /\ err' = ErrWriteMetadata
    /\ pc' = "Close"
    /\ UNCHANGED <<impl, path, handle, sheets, rows, i, batch, accumulatedQuotes,
                   metadata, fs0, skipLog, closeLog>>

\* the deferred file.Close(): its error is logged (main.go) or dropped
\* (utils), and ReadQuotesFromExcel returns what ReadExcelFile returned
Close ==
    /\ pc = "Close"
    /\ handle' = "closed"
    /\ closeLog' \in {"ok", "error"}
    /\ pc' = "return"
    /\ UNCHANGED <<impl, path, sheets, rows, i, batch, accumulatedQuotes,
                   metadata, err, fs, fs0, writeLog, skipLog>>

Next ==
    \/ Main
    \/ OpenExcelFileFail
    \/ OpenExcelFileOk
    \/ GetSheetList
    \/ GetRowsFail
    \/ GetRowsOk
    \/ LoopStep
    \/ AfterLoop
    \/ WriteQuotesOk
    \/ WriteQuotesFail
    \/ WriteMetadataOk
    \/ WriteMetadataFail
    \/ Close
    \/ MainReturn

Spec == Init /\ [][Next]_vars

----------------------------------------------------------------------------
(* src/utils/readFromExcel.go: the converter without batches *)

\* for i, row := range rows { ... quotes = append(quotes, quote) }: the rows
\* the loop does not skip, in order, each made into a Quote
PlainQuotes(rs) ==
    LET indices == [k \in 1..Len(rs) |-> k - 1]
        Kept(idx) == RetainRow(idx, rs[idx + 1])
        kept == SelectSeq(indices, Kept)
    IN  [k \in 1..Len(kept) |-> MakeQuote(kept[k], rs[kept[k] + 1])]

\* the document WriteJSONToFile("quotes_output.json", QuotesData{Quotes, Metadata}) writes
CombinedDocument(qs, m) ==
    [kind |-> "json", indent |-> 2, quotes |-> MarshalQuotes(qs),
     metadata |-> MarshalMetadata(m)]

\* OpenExcelFile fails: log.Fatalf prints the error and ends the process with
\* os.Exit(1); the return err after it is never reached
UtilsOpenExcelFileFail ==
    /\ pc = "OpenExcelFile" /\ impl = "utils"
    /\ path # "ok"
    /\ err' = ErrOpen
    /\ pc' = "fatal"
    /\ UNCHANGED <<impl, path, handle, sheets, rows, i, batch, accumulatedQuotes,
                   metadata, fs, fs0, writeLog, skipLog, closeLog>>

\* the whole range loop, then the metadata
UtilsLoop ==
    /\ pc = "Loop" /\ impl = "utils"
    /\ accumulatedQuotes' = PlainQuotes(rows)
    /\ i' = Len(rows)
    /\ \E now \in Clock : metadata' = NewMetadata(accumulatedQuotes', now)
    /\ pc' = "WriteOutput"
    /\ UNCHANGED <<impl, path, handle, sheets, rows, batch,
                   err, fs, fs0, writeLog, skipLog, closeLog>>

\* WriteJSONToFile("quotes_output.json", quotesData) succeeds
UtilsWriteOutputOk ==
    /\ pc = "WriteOutput"
    /\ fs' = WriteOk(fs, OutputFile, CombinedDocument(accumulatedQuotes, metadata))
    /\ writeLog' = Append(writeLog, [file |-> OutputFile, ok |-> TRUE])
    /\ err' = Nil
    /\ pc' = "Close"
    /\ UNCHANGED <<impl, path, handle, sheets, rows, i, batch, accumulatedQuotes,
                   metadata, fs0, skipLog, closeLog>>

\* WriteJSONToFile("quotes_output.json", quotesData) fails
UtilsWriteOutputFail ==
    /\ pc = "WriteOutput"
    /\ fs' \in WriteFailOutcomes(fs, OutputFile)
    /\ writeLog' = Append(writeLog, [file |-> OutputFile, ok |-> FALSE])
    /\ err' = ErrWriteJSON
    /\ pc' = "Close"
    /\ UNCHANGED <<impl, path, handle, sheets, rows, i, batch, accumulatedQuotes,
                   metadata, fs0, skipLog, closeLog>>

NextUtils ==
    \/ Main
    \/ UtilsOpenExcelFileFail
    \/ OpenExcelFileOk
    \/ GetSheetList
    \/ GetRowsFail
    \/ GetRowsOk
    \/ UtilsLoop
    \/ UtilsWriteOutputOk
    \/ UtilsWriteOutputFail
    \/ Close
    \/ MainReturn

SpecUtils == InitUtils /\ [][NextUtils]_vars

NextBoth ==
    \/ Main
    \/ OpenExcelFileFail
    \/ UtilsOpenExcelFileFail
    \/ OpenExcelFileOk
    \/ GetSheetList
    \/ GetRowsFail
    \/ GetRowsOk
    \/ LoopStep
    \/ AfterLoop
    \/ UtilsLoop
    \/ WriteQuotesOk
    \/ WriteQuotesFail
    \/ WriteMetadataOk
    \/ WriteMetadataFail
    \/ UtilsWriteOutputOk
    \/ UtilsWriteOutputFail
    \/ Close
    \/ MainReturn

SpecBoth == InitBoth /\ [][NextBoth]_vars

----------------------------------------------------------------------------
(* What the claims speak of *)

\* control is back in main, the caller of ReadQuotesFromExcel
Returned == pc \in {"return", "panic", "exit"}

\* ReadQuotesFromExcel returned without error
Succeeded == Returned /\ err = Nil

\* this call wrote file f
Written(f) == \E k \in 1..Len(writeLog) : writeLog[k].file = f /\ writeLog[k].ok

\* this call wrote the quotes file and it holds the document
QuotesWritten == Written(QuotesFile) /\ fs[QuotesFile].kind = "json"

\* number of records of a written quotes document
NumRecords(content) ==
    IF content.quotes.json = "null" THEN 0 ELSE Len(content.quotes.items)

\* the records of the quotes file
Items == IF fs[QuotesFile].quotes.json = "null" THEN <<>> ELSE fs[QuotesFile].quotes.items

\* the claimed rule of retention, on the row at zero-based index idx
Included(idx) == idx >= 1 /\ Len(rows[idx + 1]) >= 2

\* the zero-based indices of the rows the rule retains, in order
IncludedIndices == SelectSeq([k \in 1..Len(rows) |-> k - 1], Included)

NotSpace(c) == c # " "

RECURSIVE JoinComma(_)
JoinComma(tags) ==
    IF Len(tags) = 1 THEN tags[1]
    ELSE tags[1] \o <<",">> \o JoinComma(Tail(tags))

\* tags is what is left of cell without its spaces, cut at the commas
IsSplitOf(cell, tags) ==
    /\ Len(tags) >= 1
    /\ \A k \in 1..Len(tags) : \A j \in 1..Len(tags[k]) : tags[k][j] \notin {" ", ","}
    /\ JoinComma(tags) = SelectSeq(cell, NotSpace)

PreWriteErrors == {ErrOpen, ErrNoSheets, ErrRows}

----------------------------------------------------------------------------
(* Claims *)

\* C1: after a conversion that returns success, totalQuotes of the metadata
\* file equals the number of records of the quotes file.
C1_TotalQuotesMatchesRecords ==
    Succeeded =>
        /\ fs[QuotesFile].kind = "json"
        /\ fs[MetadataFile].kind = "json"
        /\ fs[MetadataFile].doc.totalQuotes = NumRecords(fs[QuotesFile])

\* a success over rows of which some were retained and some skipped
C1_Witness ==
    /\ Succeeded
    /\ Len(skipLog) >= 1
    /\ fs[MetadataFile].doc.totalQuotes >= 1

\* C2: whenever ReadQuotesFromExcel returns without error, this call has
\* written the record set to quotes.json and the metadata, as a document of
\* its own, to quotesMetadata.json.
C2_SuccessMeansBothFilesWritten ==
    Succeeded =>
        /\ Written(QuotesFile) /\ fs[QuotesFile].kind = "json"
        /\ Written(MetadataFile) /\ fs[MetadataFile].kind = "json"

\* C3: the row at zero-based index idx has a record in the output if and
\* only if idx >= 1 and the row has at least 2 cells.
C3_RetainedIffDataRowWithTwoCells ==
    QuotesWritten =>
        LET items == Items
            ids == {items[k].id : k \in 1..Len(items)}
        IN  /\ \A idx \in 0..(Len(rows) - 1) : idx \in ids <=> Included(idx)
            /\ Len(items) = Cardinality({idx \in 0..(Len(rows) - 1) : Included(idx)})

\* an output from a header of three cells, a row without cells, a row of
\* one cell and a row of two
C3_Witness ==
    /\ QuotesWritten
    /\ Len(rows) >= 4
    /\ Len(rows[1]) >= 2
    /\ \E j \in 2..Len(rows) : Len(rows[j]) = 0
    /\ \E j \in 2..Len(rows) : Len(rows[j]) = 1
    /\ \E j \in 2..Len(rows) : Len(rows[j]) = 2

\* the k-th record of the output comes from the k-th retained row, its id
\* is that row's zero-based index in the full row set, and the ids are
\* strictly increasing
IdsAreRowIndices(items, inc) ==
    /\ Len(items) = Len(inc)
    /\ \A k \in 1..Len(items) :
          /\ items[k].id = inc[k]
          /\ items[k].text = rows[items[k].id + 1][2]
    /\ \A k \in 1..(Len(items) - 1) : items[k].id < items[k + 1].id

\* two neighbouring records whose ids are not neighbours
HasGap(items) == \E k \in 1..(Len(items) - 1) : items[k + 1].id # items[k].id + 1

\* C4 (as amended): every record's id is the zero-based index of its source
\* row in the full row set (header included), not a counter over retained
\* rows; the ids are strictly increasing, and they are non-contiguous exactly
\* when a skipped row lies between two retained rows.
C4_IdIsRowIndex ==
    QuotesWritten =>
        LET items == Items
            inc == IncludedIndices
            n == Len(items)
        IN  /\ IdsAreRowIndices(items, inc)
            /\ HasGap(items) <=>
                  (n >= 2 /\ \E a \in (inc[1] + 1)..(inc[n] - 1) : ~Included(a))

\* an output whose ids jump over a skipped row
C4_Witness ==
    /\ QuotesWritten
    /\ \E k \in 1..(Len(Items) - 1) : Items[k + 1].id = Items[k].id + 2

\* C4 (as claimed): ... so when rows are skipped for insufficient columns
\* the ids of the output are non-contiguous.
C4_SkippedRowsMakeGaps ==
    QuotesWritten =>
        LET items == Items IN
        /\ IdsAreRowIndices(items, IncludedIndices)
        /\ (Len(items) >= 2 /\ \E a \in 1..(Len(rows) - 1) : Len(rows[a + 1]) < 2)
              => HasGap(items)

\* C5: the tags of every record are cell 0 of its row with the spaces
\* removed, cut at the commas; they are never empty, and an empty cell gives
\* the one empty tag.
C5_TagsAreSplitCell ==
    QuotesWritten =>
        LET items == Items IN
        \A k \in 1..Len(items) :
            LET cell == rows[items[k].id + 1][1] IN
            /\ IsSplitOf(cell, items[k].tags)
            /\ cell = <<>> => items[k].tags = << <<>> >>
            /\ cell = <<"a", ",", " ", "b">> => items[k].tags = << <<"a">>, <<"b">> >>

\* an output with the tags of an empty cell and of a cell with a comma and a space
C5_Witness ==
    /\ QuotesWritten
    /\ \E k \in 1..Len(Items) : rows[Items[k].id + 1][1] = <<>>
    /\ \E k \in 1..Len(Items) : rows[Items[k].id + 1][1] = <<"a", ",", " ", "b">>

\* C6: the quotes file is written first; the metadata write is attempted
\* only after the quotes write succeeded; a failed metadata write fails the
\* conversion with a write error and leaves the written quotes file in place.
C6_WritesInOrderNoRollback ==
    /\ Len(writeLog) <= 2
    /\ Len(writeLog) >= 1 => writeLog[1].file = QuotesFile
    /\ Len(writeLog) = 2 => writeLog[1].ok /\ writeLog[2].file = MetadataFile
    /\ (Len(writeLog) >= 1 /\ ~writeLog[1].ok) =>
          /\ err = ErrWriteJSON
          /\ fs[MetadataFile] = fs0[MetadataFile]
    /\ (Len(writeLog) = 2 /\ ~writeLog[2].ok) =>
          /\ err = ErrWriteMetadata
          /\ fs[QuotesFile].kind = "json"
          /\ NumRecords(fs[QuotesFile]) = Len(accumulatedQuotes)

\* the conversion has failed with the quotes file written and no metadata file
C6_Witness ==
    /\ Returned
    /\ err = ErrWriteMetadata
    /\ fs[QuotesFile].kind = "json"
    /\ fs[MetadataFile] = Absent

\* C7: once the workbook is open, it is closed before ReadQuotesFromExcel
\* gives control back, on success and on every failure.
C7_HandleClosedOnReturn ==
    /\ Returned => handle \in {"none", "closed"}
    /\ (Returned /\ err # ErrOpen) => handle = "closed"
    /\ (Returned /\ handle = "none") => path # "ok"

\* a failed row read has returned with the handle closed
C7_Witness == pc = "return" /\ err = ErrRows /\ handle = "closed"

\* C8: every error of ReadQuotesFromExcel reaches its caller, main, which
\* alone ends the process; ReadQuotesFromExcel never ends it itself.
C8_ErrorsReachCaller ==
    /\ pc # "fatal"
    /\ (Returned /\ path # "ok") => err = ErrOpen
    /\ pc = "panic" => err # Nil
    /\ pc = "exit" => err = Nil

\* C9: whatever the number of retained records, the accumulated sequence is
\* the sequence of the records of the retained rows in row order.
C9_BatchesAreIdentity ==
    /\ Len(batch) < batchSize
    /\ (impl = "main" /\ pc = "Loop") =>
          accumulatedQuotes \o batch = PlainQuotes(SubSeq(rows, 1, i))
    /\ metadata # NoMetadata => accumulatedQuotes = PlainQuotes(rows)

\* two full batches and one more record have been accumulated
C9_Witness ==
    /\ metadata # NoMetadata
    /\ Len(accumulatedQuotes) = 2 * batchSize + 1

\* C10: when the conversion fails before the write phase, no write was
\* attempted and the files are as they were before the call.
C10_NoWriteOnEarlyFailure ==
    err \in PreWriteErrors => writeLog = <<>> /\ fs = fs0

\* a failed row read has returned and the files left by an earlier run are untouched
C10_Witness ==
    /\ pc = "return"
    /\ err = ErrRows
    /\ fs0[QuotesFile] = Stale
    /\ fs = fs0

====
